---------------------------- MODULE Spec2Model ----------------------------
(***************************************************************************)
(* A model of pkg/neobench/output.go: the Result aggregator (Result.Add    *)
(* and the Total* reads), the three renderers (InteractiveOutput,          *)
(* CsvOutput, PrometheusOutput), the CombinedOutput fan-out and the        *)
(* InitOutput factory.                                                     *)
(*                                                                         *)
(* Three specifications share the variables:                               *)
(*   Spec            one flow calling Result.Add on a fresh Result         *)
(*   SpecConcurrent  two goroutines inside Result.Add on one Result        *)
(*   SpecOutput      InitOutput, then Output operations on what it built   *)
(* Each leaves the variables of the other two at their idle values.        *)
(*                                                                         *)
(* Numbers: int64 counters are naturals far below 2^63; the float64 Rate   *)
(* is a natural number of transactions per second, so that sums are exact. *)
(***************************************************************************)
EXTENDS Integers, Sequences, FiniteSets, TLC

VARIABLES
    r,              \* Spec: the Result being built
    contributions,  \* Spec: the WorkerResults handed to Add, in call order
    cr,             \* SpecConcurrent: the shared Result
    cin,            \* SpecConcurrent: each goroutine's WorkerResult
    g,              \* SpecConcurrent: each goroutine's position and locals
    serialized,     \* SpecConcurrent: the host wraps Add in a mutex
    mutex,          \* SpecConcurrent: the holder of that mutex, or 0
    fatal,          \* SpecConcurrent: the runtime stopped the process
    pc,             \* SpecOutput: "init", "run", "failed" (InitOutput returned an
                    \* error) or "panicked"
    initArgs,       \* SpecOutput: what InitOutput was called with
    output,         \* SpecOutput: the value InitOutput returned
    process,        \* SpecOutput: what InitOutput created in the process
    renderer,       \* SpecOutput: the primary renderer's rate-limiter fields
    ErrStream,      \* SpecOutput: the Write calls made on os.Stderr, in order
    OutStream,      \* SpecOutput: the Write calls made on os.Stdout, in order
    counters,       \* SpecOutput: the two prometheus counters
    now,            \* SpecOutput: the wall clock, in seconds
    history,        \* SpecOutput: the Output calls made, in order
    delegated       \* SpecOutput: the calls the latest Output call handed to delegates

aggVars  == <<r, contributions>>
concVars == <<cr, cin, g, serialized, mutex, fatal>>
outVars  == <<pc, initArgs, output, process, renderer, ErrStream, OutStream,
              counters, now, history, delegated>>
vars     == <<r, contributions, cr, cin, g, serialized, mutex, fatal,
              pc, initArgs, output, process, renderer, ErrStream, OutStream,
              counters, now, history, delegated>>

(***************************************************************************)
(* Bounds                                                                  *)
(***************************************************************************)
\* Add calls made on one Result
MaxAdds == 2
\* transactions one worker reports in one WorkerResult, over all its scripts
MaxTx == 1
\* Output calls made after InitOutput
MaxCalls == 2

ScriptNames == {"tx", "q"}
GroupNames  == {"timeout", "deadlock"}
Messages    == {"e1", "e2"}
\* the values the histogram records, in microseconds
Buckets     == {1, 2}

(***************************************************************************)
(* Helpers                                                                 *)
(***************************************************************************)
RECURSIVE SumOver(_, _)
SumOver(f, S) ==
    IF S = {} THEN 0
    ELSE LET x == CHOOSE y \in S : TRUE IN f[x] + SumOver(f, S \ {x})

RECURSIVE SeqSum(_)
SeqSum(s) == IF s = <<>> THEN 0 ELSE Head(s) + SeqSum(Tail(s))

Empty == [x \in {} |-> 0]

(***************************************************************************)
(* hdrhistogram, as far as output.go uses it: a histogram is the number of *)
(* recorded samples per bucket.                                            *)
(***************************************************************************)
HistNew == [b \in Buckets |-> 0]
HistRecord(h, b, n) == [h EXCEPT ![b] = @ + n]
HistExport(h) == [Counts |-> h]
HistImport(snapshot) == [b \in Buckets |-> snapshot.Counts[b]]
HistMerge(h, from) == [b \in Buckets |-> h[b] + from[b]]
HistTotalCount(h) == SumOver(h, Buckets)

(***************************************************************************)
(* Result                                                                  *)
(***************************************************************************)
NewResult(databaseName, scenario) ==
    [DatabaseName       |-> databaseName,
     Scenario           |-> scenario,
     FailedByErrorGroup |-> Empty,
     Scripts            |-> Empty]

TotalSucceeded(res) ==
    SumOver([n \in DOMAIN res.Scripts |-> res.Scripts[n].Succeeded], DOMAIN res.Scripts)

TotalFailed(res) ==
    SumOver([n \in DOMAIN res.Scripts |-> res.Scripts[n].Failed], DOMAIN res.Scripts)

TotalRate(res) ==
    SumOver([n \in DOMAIN res.Scripts |-> res.Scripts[n].Rate], DOMAIN res.Scripts)

\* A bug Add could have: the line adding Failed is missing.
AddScriptDropsFailed(scripts, ws) ==
    [n \in DOMAIN scripts \cup {ws.ScriptName} |->
        IF n # ws.ScriptName THEN scripts[n]
        ELSE IF n \notin DOMAIN scripts
        THEN [ScriptName |-> ws.ScriptName,
              Latencies  |-> HistImport(HistExport(ws.Latencies)),
              Rate       |-> ws.Rate,
              Succeeded  |-> ws.Succeeded,
              Failed     |-> ws.Failed]
        ELSE [ScriptName |-> scripts[n].ScriptName,
              Latencies  |-> HistMerge(scripts[n].Latencies, ws.Latencies),
              Rate       |-> scripts[n].Rate + ws.Rate,
              Succeeded  |-> scripts[n].Succeeded + ws.Succeeded,
              Failed     |-> scripts[n].Failed]]

\* A bug Add could have: the entry of a known script is replaced, not added to.
AddScriptOverwrites(scripts, ws) ==
    [n \in DOMAIN scripts \cup {ws.ScriptName} |->
        IF n = ws.ScriptName
        THEN [ScriptName |-> ws.ScriptName,
              Latencies  |-> HistImport(HistExport(ws.Latencies)),
              Rate       |-> ws.Rate,
              Succeeded  |-> ws.Succeeded,
              Failed     |-> ws.Failed]
        ELSE scripts[n]]

\* One round of Add's first loop: the entry of ws.ScriptName is inserted (with
\* a copy of the histogram) when the name is new, and added to otherwise.
AddScript(scripts, ws) ==
    IF ws.ScriptName \notin DOMAIN scripts
    THEN [n \in DOMAIN scripts \cup {ws.ScriptName} |->
            IF n = ws.ScriptName
            THEN [ScriptName |-> ws.ScriptName,
                  Latencies  |-> HistImport(HistExport(ws.Latencies)),
                  Rate       |-> ws.Rate,
                  Succeeded  |-> ws.Succeeded,
                  Failed     |-> ws.Failed]
            ELSE scripts[n]]
    ELSE [scripts EXCEPT ![ws.ScriptName] =
            [ScriptName |-> @.ScriptName,
             Latencies  |-> HistMerge(@.Latencies, ws.Latencies),
             Rate       |-> @.Rate + ws.Rate,
             Succeeded  |-> @.Succeeded + ws.Succeeded,
             Failed     |-> @.Failed + ws.Failed]]

\* A bug Add could have: the later report's FirstFailure wins.
AddGroupKeepsLatest(groups, name, group) ==
    [n \in DOMAIN groups \cup {name} |->
        IF n = name
        THEN [Count        |-> (IF name \in DOMAIN groups THEN groups[name].Count ELSE 0)
                               + group.Count,
              FirstFailure |-> group.FirstFailure]
        ELSE groups[n]]

\* One round of Add's second loop.
AddGroup(groups, name, group) ==
    IF name \in DOMAIN groups
    THEN [groups EXCEPT ![name] =
            [Count        |-> groups[name].Count + group.Count,
             FirstFailure |-> groups[name].FirstFailure]]
    ELSE [n \in DOMAIN groups \cup {name} |-> IF n = name THEN group ELSE groups[n]]

\* Go ranges over a map in an unspecified order. Every round of either loop
\* touches the entry of its own key only, so the order does not show in the
\* result and the rounds are taken in the order CHOOSE picks.
RECURSIVE AddScripts(_, _, _)
AddScripts(scripts, from, todo) ==
    IF todo = {} THEN scripts
    ELSE LET n == CHOOSE x \in todo : TRUE
         IN AddScripts(AddScript(scripts, from[n]), from, todo \ {n})

RECURSIVE AddGroups(_, _, _)
AddGroups(groups, from, todo) ==
    IF todo = {} THEN groups
    ELSE LET n == CHOOSE x \in todo : TRUE
         IN AddGroups(AddGroup(groups, n, from[n]), from, todo \ {n})

Add(res, wr) ==
    [res EXCEPT
        !.Scripts = AddScripts(res.Scripts, wr.Scripts, DOMAIN wr.Scripts),
        !.FailedByErrorGroup =
            AddGroups(res.FailedByErrorGroup, wr.FailedByErrorGroup,
                      DOMAIN wr.FailedByErrorGroup)]


(***************************************************************************)
(* WorkerResult: what one worker hands to Add. A worker reports at most    *)
(* MaxTx transactions over all its scripts; a script's Rate counts the     *)
(* succeeded and the failed ones, its histogram holds one sample per       *)
(* succeeded one, and the failures of one report fall in one error group.  *)
(***************************************************************************)
LatencyOf(name) == IF name = "tx" THEN 1 ELSE 2

WorkerScript(name, succeeded, failed) ==
    [ScriptName |-> name,
     Rate       |-> succeeded + failed,
     Succeeded  |-> succeeded,
     Failed     |-> failed,
     Latencies  |-> HistRecord(HistNew, LatencyOf(name), succeeded)]

Outcomes == {p \in (0..MaxTx) \X (0..MaxTx) : p[1] + p[2] <= MaxTx}

WorkerScriptMaps ==
    {[n \in DOMAIN m |-> WorkerScript(n, m[n][1], m[n][2])] :
        m \in {x \in UNION {[S -> Outcomes] : S \in SUBSET ScriptNames} :
                 SumOver([n \in DOMAIN x |-> x[n][1] + x[n][2]], DOMAIN x) <= MaxTx}}

FailedIn(scripts) == SumOver([n \in DOMAIN scripts |-> scripts[n].Failed], DOMAIN scripts)

WorkerResults ==
    {[Scripts |-> s, FailedByErrorGroup |-> Empty] :
        s \in {x \in WorkerScriptMaps : FailedIn(x) = 0}}
    \cup
    {[Scripts |-> s,
      FailedByErrorGroup |->
          [n \in {name} |-> [Count |-> FailedIn(s), FirstFailure |-> msg]]] :
        s \in {x \in WorkerScriptMaps : FailedIn(x) > 0},
        name \in GroupNames, msg \in Messages}

(***************************************************************************)
(* The idle values of the variables a specification does not use           *)
(***************************************************************************)
AggIdle ==
    /\ r = NewResult("neo4j", "-w builtin:tpcb-like")
    /\ contributions = <<>>

ConcIdle ==
    /\ cr = NewResult("neo4j", "-w builtin:tpcb-like")
    /\ cin = <<>>
    /\ g = <<>>
    /\ serialized = FALSE
    /\ mutex = 0
    /\ fatal = FALSE

OutIdle ==
    /\ pc = "idle"
    /\ initArgs = <<>>
    /\ output = <<>>
    /\ process = <<>>
    /\ renderer = <<>>
    /\ ErrStream = <<>>
    /\ OutStream = <<>>
    /\ counters = <<>>
    /\ now = 0
    /\ history = <<>>
    /\ delegated = <<>>

(***************************************************************************)
(* Spec: one flow building a Result by Add calls                           *)
(***************************************************************************)
Init ==
    /\ r = NewResult("neo4j", "-w builtin:tpcb-like")
    /\ contributions = <<>>
    /\ ConcIdle
    /\ OutIdle

ResultAdd ==
    /\ Len(contributions) < MaxAdds
    /\ \E wr \in WorkerResults :
        /\ r' = Add(r, wr)
        /\ contributions' = Append(contributions, wr)
    /\ UNCHANGED <<concVars, outVars>>

Next == ResultAdd

Spec == Init /\ [][Next]_vars

\* The Result a sequence of WorkerResults builds, added in the order given.
RECURSIVE AddAll(_, _)
AddAll(res, ws) == IF ws = <<>> THEN res ELSE AddAll(Add(res, Head(ws)), Tail(ws))

Reverse(s) == [i \in 1..Len(s) |-> s[Len(s) + 1 - i]]

\* The indices of the contributions that report script n / error group n
WithScript(n) == {i \in 1..Len(contributions) : n \in DOMAIN contributions[i].Scripts}
WithGroup(n) ==
    {i \in 1..Len(contributions) : n \in DOMAIN contributions[i].FailedByErrorGroup}

Counters(s) == [Rate |-> s.Rate, Succeeded |-> s.Succeeded, Failed |-> s.Failed]

\* C1: after any sequence of Add calls on a fresh Result, Scripts holds exactly
\* the script names contributed, every entry's Rate, Succeeded and Failed are
\* the sums of those fields over the contributions with that name, the three
\* totals are the sums over all contributions, and adding the same
\* contributions in the reverse order gives the same counters.
C1_ScriptsAreSums ==
    /\ DOMAIN r.Scripts = {n \in ScriptNames : WithScript(n) # {}}
    /\ \A n \in DOMAIN r.Scripts :
        /\ r.Scripts[n].Rate =
             SumOver([i \in WithScript(n) |-> contributions[i].Scripts[n].Rate], WithScript(n))
        /\ r.Scripts[n].Succeeded =
             SumOver([i \in WithScript(n) |-> contributions[i].Scripts[n].Succeeded], WithScript(n))
        /\ r.Scripts[n].Failed =
             SumOver([i \in WithScript(n) |-> contributions[i].Scripts[n].Failed], WithScript(n))
    /\ TotalSucceeded(r) =
         SeqSum([i \in 1..Len(contributions) |->
                   SumOver([n \in DOMAIN contributions[i].Scripts |->
                              contributions[i].Scripts[n].Succeeded],
                           DOMAIN contributions[i].Scripts)])
    /\ TotalFailed(r) =
         SeqSum([i \in 1..Len(contributions) |-> FailedIn(contributions[i].Scripts)])
    /\ TotalRate(r) =
         SeqSum([i \in 1..Len(contributions) |->
                   SumOver([n \in DOMAIN contributions[i].Scripts |->
                              contributions[i].Scripts[n].Rate],
                           DOMAIN contributions[i].Scripts)])
    /\ LET back == AddAll(NewResult(r.DatabaseName, r.Scenario), Reverse(contributions))
       IN /\ DOMAIN back.Scripts = DOMAIN r.Scripts
          /\ \A n \in DOMAIN r.Scripts : Counters(back.Scripts[n]) = Counters(r.Scripts[n])

\* C1's case: two contributions to one script, which then holds succeeded and
\* failed transactions, and a second script in the Result.
C1_Witness ==
    \E n \in DOMAIN r.Scripts :
        /\ Cardinality(WithScript(n)) >= 2
        /\ r.Scripts[n].Succeeded >= 1
        /\ r.Scripts[n].Failed >= 1
        /\ DOMAIN r.Scripts # {n}

\* The first contribution that reports error group n
FirstWithGroup(n) == CHOOSE i \in WithGroup(n) : \A j \in WithGroup(n) : i <= j

\* C2: an error group is in the Result exactly when some Add reported it; its
\* FirstFailure is the one of the first Add that reported it, whatever later
\* Adds carried, and its Count is the sum of the Counts reported.
C2_FirstFailureKept ==
    /\ DOMAIN r.FailedByErrorGroup = {n \in GroupNames : WithGroup(n) # {}}
    /\ \A n \in DOMAIN r.FailedByErrorGroup :
        /\ r.FailedByErrorGroup[n].FirstFailure =
             contributions[FirstWithGroup(n)].FailedByErrorGroup[n].FirstFailure
        /\ r.FailedByErrorGroup[n].Count =
             SumOver([i \in WithGroup(n) |-> contributions[i].FailedByErrorGroup[n].Count],
                     WithGroup(n))

\* C2's case: a group reported twice, the second time with another FirstFailure.
C2_Witness ==
    \E n \in DOMAIN r.FailedByErrorGroup : \E i, j \in WithGroup(n) :
        /\ i < j
        /\ contributions[i].FailedByErrorGroup[n].FirstFailure
             # contributions[j].FailedByErrorGroup[n].FirstFailure

\* C9: an Add step removes no script and no error group, and lowers no Rate,
\* Succeeded, Failed or Count of a key that was there before the step.
C9_AddOnlyGrows ==
    [][/\ DOMAIN r.Scripts \subseteq DOMAIN r'.Scripts
       /\ DOMAIN r.FailedByErrorGroup \subseteq DOMAIN r'.FailedByErrorGroup
       /\ \A n \in DOMAIN r.Scripts :
            /\ r'.Scripts[n].Rate >= r.Scripts[n].Rate
            /\ r'.Scripts[n].Succeeded >= r.Scripts[n].Succeeded
            /\ r'.Scripts[n].Failed >= r.Scripts[n].Failed
       /\ \A n \in DOMAIN r.FailedByErrorGroup :
            r'.FailedByErrorGroup[n].Count >= r.FailedByErrorGroup[n].Count]_vars

\* C9's case: the latest Add met a script and an error group that were already
\* there and brought a script that was not.
C9_Witness ==
    /\ Len(contributions) >= 2
    /\ LET before == AddAll(NewResult(r.DatabaseName, r.Scenario),
                            SubSeq(contributions, 1, Len(contributions) - 1))
           latest == contributions[Len(contributions)]
       IN /\ DOMAIN latest.Scripts \cap DOMAIN before.Scripts # {}
          /\ DOMAIN latest.Scripts \ DOMAIN before.Scripts # {}
          /\ DOMAIN latest.FailedByErrorGroup \cap DOMAIN before.FailedByErrorGroup # {}


(***************************************************************************)
(* SpecConcurrent: two goroutines, each making one Add call on the same    *)
(* Result, which is fresh or holds one earlier contribution. Add takes no  *)
(* lock, so every load and every store of the shared Result is a step of   *)
(* its own: a map lookup, a map assignment, and for `x.f += v` the load of *)
(* x.f and the store of the sum. With serialized the host holds a mutex    *)
(* around each call. Each goroutine makes one call, so a *ScriptResult a   *)
(* goroutine holds is the one the map still holds and the entries are kept *)
(* by value.                                                               *)
(***************************************************************************)
Goroutines == {1, 2}
Other(i) == 3 - i

ConcInputs ==
    {[Scripts |-> [n \in {"tx"} |-> WorkerScript("tx", 1, 0)],
      FailedByErrorGroup |-> Empty],
     [Scripts |-> [n \in {"tx"} |-> WorkerScript("tx", 0, 1)],
      FailedByErrorGroup |->
          [n \in {"timeout"} |-> [Count |-> 1, FirstFailure |-> "e1"]]],
     [Scripts |-> [n \in {"tx", "q"} |->
                     IF n = "tx" THEN WorkerScript("tx", 1, 0) ELSE WorkerScript("q", 0, 1)],
      FailedByErrorGroup |->
          [n \in {"timeout"} |-> [Count |-> 1, FirstFailure |-> "e2"]]]}

InitConcurrent ==
    /\ AggIdle
    /\ OutIdle
    /\ \E before \in {NewResult("neo4j", "-w builtin:tpcb-like")}
                     \cup {Add(NewResult("neo4j", "-w builtin:tpcb-like"), w) : w \in ConcInputs} :
       \E w1 \in ConcInputs, w2 \in ConcInputs :
        /\ cr = before
        /\ cin = [before |-> before, res |-> <<w1, w2>>]
    /\ g = [i \in Goroutines |-> [pc |-> "start", todo |-> {}, cur |-> "", tmp |-> 0]]
    /\ serialized \in BOOLEAN
    /\ mutex = 0
    /\ fatal = FALSE

At(i, where) == ~fatal /\ g[i].pc = where
Goto(i, where) == g' = [g EXCEPT ![i].pc = where]
res(i) == cin.res[i]
ws(i) == cin.res[i].Scripts[g[i].cur]

\* The caller: Add(res) is called, under the host's mutex when it has one.
Call(i) ==
    /\ At(i, "start")
    /\ IF serialized THEN mutex = 0 /\ mutex' = i ELSE UNCHANGED mutex
    /\ g' = [g EXCEPT ![i].pc = "range1", ![i].todo = DOMAIN res(i).Scripts]
    /\ UNCHANGED <<aggVars, outVars, cr, cin, serialized, fatal>>

\* for _, workerScriptResult := range res.Scripts
Range1(i) ==
    /\ At(i, "range1")
    /\ IF g[i].todo = {}
       THEN g' = [g EXCEPT ![i].pc = "range2",
                           ![i].todo = DOMAIN res(i).FailedByErrorGroup]
       ELSE \E n \in g[i].todo :
              g' = [g EXCEPT ![i].pc = "l66", ![i].cur = n, ![i].todo = @ \ {n}]
    /\ UNCHANGED <<aggVars, outVars, cr, cin, serialized, mutex, fatal>>

\* combinedScriptResult := r.Scripts[name]; if combinedScriptResult == nil
L66(i) ==
    /\ At(i, "l66")
    /\ Goto(i, IF g[i].cur \in DOMAIN cr.Scripts THEN "l76" ELSE "l68")
    /\ UNCHANGED <<aggVars, outVars, cr, cin, serialized, mutex, fatal>>

\* r.Scripts[name] = &ScriptResult{...}
L68(i) ==
    /\ At(i, "l68")
    /\ cr' = [cr EXCEPT !.Scripts =
                [n \in DOMAIN cr.Scripts \cup {g[i].cur} |->
                    IF n = g[i].cur
                    THEN [ScriptName |-> ws(i).ScriptName,
                          Latencies  |-> HistImport(HistExport(ws(i).Latencies)),
                          Rate       |-> ws(i).Rate,
                          Succeeded  |-> ws(i).Succeeded,
                          Failed     |-> ws(i).Failed]
                    ELSE cr.Scripts[n]]]
    /\ Goto(i, "range1")
    /\ UNCHANGED <<aggVars, outVars, cin, serialized, mutex, fatal>>

\* combinedScriptResult.Rate += workerScriptResult.Rate: the load
L76Load(i) ==
    /\ At(i, "l76")
    /\ g' = [g EXCEPT ![i].pc = "l76s", ![i].tmp = cr.Scripts[g[i].cur].Rate]
    /\ UNCHANGED <<aggVars, outVars, cr, cin, serialized, mutex, fatal>>

\* ... and the store
L76Store(i) ==
    /\ At(i, "l76s")
    /\ cr' = [cr EXCEPT !.Scripts[g[i].cur].Rate = g[i].tmp + ws(i).Rate]
    /\ Goto(i, "l77")
    /\ UNCHANGED <<aggVars, outVars, cin, serialized, mutex, fatal>>

\* combinedScriptResult.Succeeded += workerScriptResult.Succeeded: the load
L77Load(i) ==
    /\ At(i, "l77")
    /\ g' = [g EXCEPT ![i].pc = "l77s", ![i].tmp = cr.Scripts[g[i].cur].Succeeded]
    /\ UNCHANGED <<aggVars, outVars, cr, cin, serialized, mutex, fatal>>

\* A bug Add could have: = in place of +=.
L77StoreAssigns(i) ==
    /\ At(i, "l77s")
    /\ cr' = [cr EXCEPT !.Scripts[g[i].cur].Succeeded = ws(i).Succeeded]
    /\ Goto(i, "l78")
    /\ UNCHANGED <<aggVars, outVars, cin, serialized, mutex, fatal>>

\* ... and the store
L77Store(i) ==
    /\ At(i, "l77s")
    /\ cr' = [cr EXCEPT !.Scripts[g[i].cur].Succeeded = g[i].tmp + ws(i).Succeeded]
    /\ Goto(i, "l78")
    /\ UNCHANGED <<aggVars, outVars, cin, serialized, mutex, fatal>>

\* combinedScriptResult.Failed += workerScriptResult.Failed: the load
L78Load(i) ==
    /\ At(i, "l78")
    /\ g' = [g EXCEPT ![i].pc = "l78s", ![i].tmp = cr.Scripts[g[i].cur].Failed]
    /\ UNCHANGED <<aggVars, outVars, cr, cin, serialized, mutex, fatal>>

\* ... and the store
L78Store(i) ==
    /\ At(i, "l78s")
    /\ cr' = [cr EXCEPT !.Scripts[g[i].cur].Failed = g[i].tmp + ws(i).Failed]
    /\ Goto(i, "l79")
    /\ UNCHANGED <<aggVars, outVars, cin, serialized, mutex, fatal>>

\* combinedScriptResult.Latencies.Merge(...): the load of the counts
L79Load(i) ==
    /\ At(i, "l79")
    /\ g' = [g EXCEPT ![i].pc = "l79s", ![i].tmp = cr.Scripts[g[i].cur].Latencies]
    /\ UNCHANGED <<aggVars, outVars, cr, cin, serialized, mutex, fatal>>

\* ... and the store of the merged counts
L79Store(i) ==
    /\ At(i, "l79s")
    /\ cr' = [cr EXCEPT !.Scripts[g[i].cur].Latencies = HistMerge(g[i].tmp, ws(i).Latencies)]
    /\ g' = [g EXCEPT ![i].pc = "range1", ![i].tmp = 0]
    /\ UNCHANGED <<aggVars, outVars, cin, serialized, mutex, fatal>>

\* for name, group := range res.FailedByErrorGroup; the return when it is over
Range2(i) ==
    /\ At(i, "range2")
    /\ IF g[i].todo = {}
       THEN /\ g' = [g EXCEPT ![i].pc = "done", ![i].cur = "", ![i].tmp = 0]
            /\ mutex' = IF serialized THEN 0 ELSE mutex
       ELSE /\ \E n \in g[i].todo :
                 g' = [g EXCEPT ![i].pc = "l83", ![i].cur = n, ![i].todo = @ \ {n}]
            /\ UNCHANGED mutex
    /\ UNCHANGED <<aggVars, outVars, cr, cin, serialized, fatal>>

\* existing, found := r.FailedByErrorGroup[name]
L83(i) ==
    /\ At(i, "l83")
    /\ IF g[i].cur \in DOMAIN cr.FailedByErrorGroup
       THEN g' = [g EXCEPT ![i].pc = "l85", ![i].tmp = cr.FailedByErrorGroup[g[i].cur]]
       ELSE g' = [g EXCEPT ![i].pc = "l90"]
    /\ UNCHANGED <<aggVars, outVars, cr, cin, serialized, mutex, fatal>>

\* r.FailedByErrorGroup[name] = FailureGroup{existing.Count + group.Count, ...}
L85(i) ==
    /\ At(i, "l85")
    /\ cr' = [cr EXCEPT !.FailedByErrorGroup =
                [n \in DOMAIN cr.FailedByErrorGroup \cup {g[i].cur} |->
                    IF n = g[i].cur
                    THEN [Count |-> g[i].tmp.Count
                                      + res(i).FailedByErrorGroup[g[i].cur].Count,
                          FirstFailure |-> g[i].tmp.FirstFailure]
                    ELSE cr.FailedByErrorGroup[n]]]
    /\ g' = [g EXCEPT ![i].pc = "range2", ![i].tmp = 0]
    /\ UNCHANGED <<aggVars, outVars, cin, serialized, mutex, fatal>>

\* r.FailedByErrorGroup[name] = group
L90(i) ==
    /\ At(i, "l90")
    /\ cr' = [cr EXCEPT !.FailedByErrorGroup =
                [n \in DOMAIN cr.FailedByErrorGroup \cup {g[i].cur} |->
                    IF n = g[i].cur THEN res(i).FailedByErrorGroup[g[i].cur]
                    ELSE cr.FailedByErrorGroup[n]]]
    /\ Goto(i, "range2")
    /\ UNCHANGED <<aggVars, outVars, cin, serialized, mutex, fatal>>

\* The Go runtime may find a map assignment overlapping the other goroutine's
\* access to the same map and stop the process ("concurrent map writes",
\* "concurrent map read and map write"); it need not.
ScriptsAccess == {"l66", "l68"}
GroupsAccess  == {"l83", "l85", "l90"}
Throw(i) ==
    /\ ~fatal
    /\ \/ g[i].pc = "l68" /\ g[Other(i)].pc \in ScriptsAccess
       \/ g[i].pc \in {"l85", "l90"} /\ g[Other(i)].pc \in GroupsAccess
    /\ fatal' = TRUE
    /\ UNCHANGED <<aggVars, outVars, cr, cin, g, serialized, mutex>>

NextConcurrent ==
    \/ \E i \in Goroutines : Call(i)
    \/ \E i \in Goroutines : Range1(i)
    \/ \E i \in Goroutines : L66(i)
    \/ \E i \in Goroutines : L68(i)
    \/ \E i \in Goroutines : L76Load(i)
    \/ \E i \in Goroutines : L76Store(i)
    \/ \E i \in Goroutines : L77Load(i)
    \/ \E i \in Goroutines : L77Store(i)
    \/ \E i \in Goroutines : L78Load(i)
    \/ \E i \in Goroutines : L78Store(i)
    \/ \E i \in Goroutines : L79Load(i)
    \/ \E i \in Goroutines : L79Store(i)
    \/ \E i \in Goroutines : Range2(i)
    \/ \E i \in Goroutines : L83(i)
    \/ \E i \in Goroutines : L85(i)
    \/ \E i \in Goroutines : L90(i)
    \/ \E i \in Goroutines : Throw(i)

SpecConcurrent == InitConcurrent /\ [][NextConcurrent]_vars

BothDone == \A i \in Goroutines : g[i].pc = "done"

\* What the two calls make of cin.before when one runs after the other
OneAfterTheOther == Add(Add(cin.before, cin.res[1]), cin.res[2])

\* Every counter of the shared Result is what it was before the two calls plus
\* the two contributions.
CountersAreSums ==
    /\ DOMAIN cr.Scripts = DOMAIN OneAfterTheOther.Scripts
    /\ \A n \in DOMAIN cr.Scripts :
         Counters(cr.Scripts[n]) = Counters(OneAfterTheOther.Scripts[n])
    /\ DOMAIN cr.FailedByErrorGroup = DOMAIN OneAfterTheOther.FailedByErrorGroup
    /\ \A n \in DOMAIN cr.FailedByErrorGroup :
         cr.FailedByErrorGroup[n].Count = OneAfterTheOther.FailedByErrorGroup[n].Count

\* C10: when the host serializes the two Add calls, the runtime never stops
\* the process and, once both have returned, every script's Rate, Succeeded
\* and Failed and every group's Count is the sum of the contributions. (That
\* a lost insert or update is reachable without the mutex is C10_Witness.)
C10_SerializedAddsSum ==
    serialized => (~fatal /\ (BothDone => CountersAreSums))

\* C10's case: the two calls ran with no mutex, both returned, and a counter
\* is not the sum of the contributions.
C10_Witness == ~serialized /\ BothDone /\ ~fatal /\ ~CountersAreSums


(***************************************************************************)
(* Formatting. A written line is the tuple of its format and its formatted *)
(* arguments, all strings; a CSV line is the tuple of its cells. Numbers   *)
(* are formatted as fmt does: %d, and %.3f / %.02f of a value known in     *)
(* thousandths / of a whole number.                                        *)
(***************************************************************************)
FmtD(n) == ToString(n)
Pad3(n) == IF n < 10 THEN "00" \o ToString(n)
           ELSE IF n < 100 THEN "0" \o ToString(n) ELSE ToString(n)
\* %.3f of thousandths / 1000
FmtThousandths(t) == ToString(t \div 1000) \o "." \o Pad3(t % 1000)
\* %.3f and %.02f of a whole number
FmtF3(n) == ToString(n) \o ".000"
FmtF2(n) == ToString(n) \o ".00"
Quoted(str) == "\"" \o str \o "\""
\* a / b rounded to the nearest whole number
RoundDiv(a, b) == (2 * a + b) \div (2 * b)

\* The whole number in 0..hi nearest to sqrt(num / den)
RoundSqrt(num, den, hi) ==
    CHOOSE n \in 0..hi :
        /\ (2 * n - 1) * (2 * n - 1) * den <= 4 * num \/ n = 0
        /\ 4 * num < (2 * n + 1) * (2 * n + 1) * den \/ n = hi

(***************************************************************************)
(* The histogram's reads (hdrhistogram), in microseconds                   *)
(***************************************************************************)
HistMin(h) ==
    IF HistTotalCount(h) = 0 THEN 0
    ELSE CHOOSE b \in Buckets : h[b] > 0 /\ \A c \in Buckets : h[c] > 0 => b <= c
HistMax(h) ==
    IF HistTotalCount(h) = 0 THEN 0
    ELSE CHOOSE b \in Buckets : h[b] > 0 /\ \A c \in Buckets : h[c] > 0 => b >= c
HistSum(h) == SumOver([b \in Buckets |-> b * h[b]], Buckets)
\* Mean, in thousandths of a microsecond
HistMeanThousandths(h) ==
    IF HistTotalCount(h) = 0 THEN 0 ELSE RoundDiv(1000 * HistSum(h), HistTotalCount(h))
\* StdDev = sqrt(sum of count * (value - mean)^2 / total), in thousandths of
\* a microsecond
HistStdDevThousandths(h) ==
    IF HistTotalCount(h) = 0 THEN 0
    ELSE LET total == HistTotalCount(h)
             num == SumOver([b \in Buckets |->
                        h[b] * (b * total - HistSum(h)) * (b * total - HistSum(h))], Buckets)
         IN RoundSqrt(num * 1000000, total * total * total,
                      1000 * (HistMax(h) - HistMin(h)))
\* ValueAtQuantile(q), q given in thousandths of a percent: the first value at
\* which the running count reaches int64(q / 100 * total + 0.5)
HistValueAtQuantile(h, qk) ==
    LET want == (qk * HistTotalCount(h) + 50000) \div 100000
        upTo(b) == SumOver([c \in {x \in Buckets : x <= b} |-> h[c]], {x \in Buckets : x <= b})
        reached == {b \in Buckets : upTo(b) >= want}
    IN IF want = 0 \/ reached = {} THEN 0
       ELSE CHOOSE b \in reached : \A c \in reached : b <= c
\* a value in microseconds, / 1000.0, as %.3f
Ms(us) == FmtThousandths(us)

(***************************************************************************)
(* The world a renderer acts on: the primary renderer's limiter fields,    *)
(* the two streams, the prometheus counters, the clock, and the fate of    *)
(* the call under way (failAt: which of its writes fails, 0 for none).     *)
(***************************************************************************)
World(failAt, at) ==
    [renderer |-> renderer, ErrStream |-> ErrStream, OutStream |-> OutStream,
     counters |-> counters, now |-> at, nwrites |-> 0, failAt |-> failAt,
     panicked |-> FALSE, delegated |-> <<>>]

\* _, err := fmt.Fprint(stream, lines); if err != nil { panic(err) }
Fprint(w, stream, lines) ==
    IF w.panicked THEN w
    ELSE LET failed == (w.nwrites + 1 = w.failAt)
         IN [w EXCEPT !.nwrites = @ + 1,
                      ![stream] = Append(@, [lines |-> lines, err |-> failed, at |-> w.now]),
                      !.panicked = failed]

\* fmt.Fprintf(stream, text): the text is taken as a format, so a % left in
\* it (the one writeErrorReport prints after the failure rate) starts a verb.
Reformat(line) ==
    IF line[1] = "  Failed transactions: %d (%.3f %%)"
    THEN Append(line, "%!)(NOVERB)") ELSE line
FprintfText(w, stream, lines) ==
    Fprint(w, stream, [i \in 1..Len(lines) |-> Reformat(lines[i])])

RECURSIVE Flatten(_)
Flatten(ss) == IF ss = <<>> THEN <<>> ELSE Head(ss) \o Flatten(Tail(ss))

\* The orders in which a range over a map with these keys may run
Orders(keys) ==
    {o \in [1..Cardinality(keys) -> keys] : \A i, j \in DOMAIN o : o[i] = o[j] => i = j}

DefaultName(databaseName) == IF databaseName = "" THEN "<default>" ELSE databaseName

StartLines(databaseName, url, scenario) ==
    << <<"Starting workload on database %s against %s", DefaultName(databaseName), url>>,
       <<"Scenario: %s", scenario>> >>

TotalsLine(indent, succeeded, failed, rate) ==
    <<indent \o "%d successful transactions, %d failed. (Total of %.3f per second)",
      FmtD(succeeded), FmtD(failed), FmtF3(rate)>>

\* writeErrorReport; groups is the order its range over FailedByErrorGroup takes
ErrorReport(result, groups) ==
    << <<"Error stats:">> >> \o
    IF TotalFailed(result) = 0
    THEN << <<"  No errors!">> >>
    ELSE << <<"  Failed transactions: %d (%.3f %%)", FmtD(TotalFailed(result)),
              FmtThousandths(RoundDiv(100000 * TotalFailed(result),
                                      TotalFailed(result) + TotalSucceeded(result)))>>,
            <<"">>,
            <<"  Causes:">> >> \o
         Flatten([i \in 1..Len(groups) |->
            << <<"    %s: %d failures", groups[i],
                 FmtD(result.FailedByErrorGroup[groups[i]].Count)>>,
               <<"      (ex: %s)", result.FailedByErrorGroup[groups[i]].FirstFailure>> >>])

\* summarizeLatency
SummarizeLatency(script, indent) ==
    LET histo == script.Latencies
        q(label, qk) == <<indent \o "  " \o label \o ": %.03fms", Ms(HistValueAtQuantile(histo, qk))>>
    IN << TotalsLine(indent, script.Succeeded, script.Failed, script.Rate),
          <<indent \o "Max: %.3fms, Min: %.3fms, Mean: %.3fms, Stddev: %.3f",
            Ms(HistMax(histo)), Ms(HistMin(histo)),
            FmtThousandths(RoundDiv(HistMeanThousandths(histo), 1000)),
            FmtThousandths(RoundDiv(HistStdDevThousandths(histo), 1000))>>,
          <<"">>,
          <<indent \o "Latency distribution:">>,
          <<indent \o "  P00.000: %.03fms", Ms(HistMin(histo))>>,
          q("P25.000", 25000), q("P50.000", 50000), q("P75.000", 75000),
          q("P95.000", 95000), q("P99.000", 99000), q("P99.999", 99999) >>

(***************************************************************************)
(* The progress rate limiter, the same code in InteractiveOutput and       *)
(* CsvOutput                                                               *)
(***************************************************************************)
ProgressInterval == 10

\* time.Time's zero value is a field value of its own: now.Sub(zero) saturates
\* at the largest Duration (about 292 years), which is not under the interval.
ZeroTime == [isZero |-> TRUE, t |-> 0]
TimeAt(t) == [isZero |-> FALSE, t |-> t]
Within(at, earlier, seconds) == ~earlier.isZero /\ at - earlier.t < seconds

ZeroReport == [Section |-> "", Step |-> "", Completeness |-> 0]

\* A bug the limiter could have: only Section is compared.
SuppressedBySection(w, report) ==
    /\ report.Section = w.renderer.LastProgressReport.Section
    /\ Within(w.now, w.renderer.LastProgressTime, ProgressInterval)

\* the condition of the early return
Suppressed(w, report) ==
    /\ report.Section = w.renderer.LastProgressReport.Section
    /\ report.Step = w.renderer.LastProgressReport.Step
    /\ Within(w.now, w.renderer.LastProgressTime, ProgressInterval)

ProgressLine(report) ==
    <<"[%s][%s] %.02f%%", report.Section, report.Step, FmtF2(report.Completeness)>>

LimitedProgress(w, report) ==
    IF w.panicked \/ Suppressed(w, report) THEN w
    ELSE Fprint([w EXCEPT !.renderer = [LastProgressReport |-> report,
                                         LastProgressTime   |-> TimeAt(w.now)]],
                "ErrStream", <<ProgressLine(report)>>)


(***************************************************************************)
(* InteractiveOutput                                                       *)
(***************************************************************************)
InteractiveBenchmarkStart(w, a) ==
    Fprint(w, "ErrStream", StartLines(a.databaseName, a.url, a.scenario))

\* completeness and Completeness are given in percent, as whole numbers
InteractiveReportWorkloadProgress(w, a) ==
    Fprint(w, "ErrStream",
           << <<"[%.02f%%] %.02f tps / %d failures", FmtF2(a.completeness),
                FmtF2(TotalRate(a.checkpoint)), FmtD(TotalFailed(a.checkpoint))>> >>)

InteractiveReportInitProgress(w, a) == LimitedProgress(w, a.report)

InteractiveReportThroughput(w, a, env) ==
    FprintfText(w, "OutStream",
        << <<"== Results ==">>,
           <<"Scenario: %s", a.result.Scenario>>,
           TotalsLine("", TotalSucceeded(a.result), TotalFailed(a.result), TotalRate(a.result)),
           <<"">> >> \o
        [i \in 1..Len(env.scripts) |->
            <<"  [%s]: %.03f total transactions per second",
              a.result.Scripts[env.scripts[i]].ScriptName,
              FmtF3(a.result.Scripts[env.scripts[i]].Rate)>>] \o
        << <<"">> >> \o
        ErrorReport(a.result, env.groups))

\* A bug ReportLatency could have: the sections are written whatever the totals.
LatencySectionsUnguarded(result, scripts) ==
    Flatten([i \in 1..Len(scripts) |->
        << <<"">>, <<"-- Script: %s --", result.Scripts[scripts[i]].ScriptName>>, <<"">> >>
        \o SummarizeLatency(result.Scripts[scripts[i]], "  ")])

\* if result.TotalSucceeded() > 0 { for _, workload := range result.Scripts ... }
LatencySections(result, scripts) ==
    IF TotalSucceeded(result) > 0
    THEN Flatten([i \in 1..Len(scripts) |->
            << <<"">>, <<"-- Script: %s --", result.Scripts[scripts[i]].ScriptName>>, <<"">> >>
            \o SummarizeLatency(result.Scripts[scripts[i]], "  ")])
    ELSE <<>>

InteractiveReportLatency(w, a, env) ==
    Fprint(w, "OutStream",
        << <<"== Results ==">>,
           <<"Scenario: %s", a.result.Scenario>>,
           TotalsLine("", TotalSucceeded(a.result), TotalFailed(a.result), TotalRate(a.result)) >>
        \o LatencySections(a.result, env.scripts)
        \o << <<"">> >>
        \o ErrorReport(a.result, env.groups))

\* The values handed to Errorf's a ...interface{}: strings, and slices of them
Str(x) == [kind |-> "string", s |-> x, elems |-> <<>>]
Slice(elems) == [kind |-> "slice", s |-> "", elems |-> elems]
RECURSIVE Join(_)
Join(elems) ==
    IF elems = <<>> THEN ""
    ELSE Head(elems).s \o (IF Len(elems) > 1 THEN " " ELSE "") \o Join(Tail(elems))
Show(x) == IF x.kind = "string" THEN x.s ELSE "[" \o Join(x.elems) \o "]"
TypeOf(x) == IF x.kind = "string" THEN "string" ELSE "[]interface {}"

\* fmt.Sprintf for the formats used here: text and at most one %s at the end
Formats == {"out of retries", "setup failed: %s"}
Verbs(format) == IF format = "setup failed: %s" THEN 1 ELSE 0
TextOf(format) == IF format = "setup failed: %s" THEN "setup failed: " ELSE format
RECURSIVE Extra(_)
Extra(rest) ==
    IF rest = <<>> THEN ""
    ELSE TypeOf(Head(rest)) \o "=" \o Show(Head(rest))
         \o (IF Len(rest) > 1 THEN ", " ELSE "") \o Extra(Tail(rest))
Sprintf(format, a) ==
    TextOf(format)
    \o (IF Verbs(format) = 0 THEN ""
        ELSE IF Len(a) >= 1 THEN Show(a[1]) ELSE "%!s(MISSING)")
    \o (IF Len(a) > Verbs(format)
        THEN "%!(EXTRA " \o Extra(SubSeq(a, Verbs(format) + 1, Len(a))) \o ")"
        ELSE "")

InteractiveErrorf(w, a) ==
    Fprint(w, "ErrStream", << <<"ERROR: %s", Sprintf(a.format, a.a)>> >>)

(***************************************************************************)
(* CsvOutput                                                               *)
(***************************************************************************)
csvColumnNames ==
    <<"db", "script", "rate", "succeeded", "failed", "mean", "stdev",
      "p0", "p25", "p50", "p75", "p99", "p99999", "p100">>

\* csvColumns' value functions, applied in order
CsvRow(result, script) ==
    <<Quoted(result.DatabaseName),
      Quoted(script.ScriptName),
      FmtF3(script.Rate),
      FmtF3(HistTotalCount(script.Latencies)),
      FmtF3(script.Failed),
      FmtThousandths(RoundDiv(HistMeanThousandths(script.Latencies), 1000)),
      FmtThousandths(HistStdDevThousandths(script.Latencies)),
      Ms(HistMin(script.Latencies)),
      Ms(HistValueAtQuantile(script.Latencies, 25000)),
      Ms(HistValueAtQuantile(script.Latencies, 50000)),
      Ms(HistValueAtQuantile(script.Latencies, 75000)),
      Ms(HistValueAtQuantile(script.Latencies, 99000)),
      Ms(HistValueAtQuantile(script.Latencies, 99999)),
      Ms(HistMax(script.Latencies))>>

CsvBenchmarkStart(w, a) ==
    Fprint(Fprint(w, "ErrStream", StartLines(a.databaseName, a.url, a.scenario)),
           "OutStream", <<csvColumnNames>>)

CsvReportInitProgress(w, a) == LimitedProgress(w, a.report)

\* if result.TotalFailed() > 0 { writeErrorReport(result, o.ErrStream) }
CsvErrorReport(w, result, groups) ==
    IF TotalFailed(result) > 0
    THEN Fprint(w, "ErrStream", ErrorReport(result, groups))
    ELSE w

writeLatencyRow(w, result, env) ==
    CsvErrorReport(
        Fprint(w, "OutStream",
               [i \in 1..Len(env.scripts) |-> CsvRow(result, result.Scripts[env.scripts[i]])]),
        result, env.groups)

CsvReportLatency(w, a, env) == writeLatencyRow(w, a.result, env)

CsvReportWorkloadProgress(w, a, env) ==
    CsvReportLatency(
        Fprint(w, "ErrStream", << <<"[workload] %.02f%% done", FmtF2(a.completeness)>> >>),
        [result |-> a.checkpoint], env)

CsvReportThroughput(w, a, env) ==
    CsvErrorReport(
        Fprint(w, "OutStream",
               << <<"script", "succeeded", "failed", "transactions_per_second">> >> \o
               [i \in 1..Len(env.scripts) |->
                   <<Quoted(a.result.Scripts[env.scripts[i]].ScriptName),
                     FmtF3(a.result.Scripts[env.scripts[i]].Succeeded),
                     FmtF3(a.result.Scripts[env.scripts[i]].Failed),
                     FmtF3(a.result.Scripts[env.scripts[i]].Rate)>>]),
        a.result, env.groups)

CsvErrorf(w, a) ==
    Fprint(w, "ErrStream", << <<"ERROR: %s", Sprintf(a.format, a.a)>> >>)

(***************************************************************************)
(* PrometheusOutput                                                        *)
(***************************************************************************)
NewPrometheusOutput == [totalSucceededCounter |-> 0, totalFailedCounter |-> 0]

PrometheusReportWorkloadProgress(w, a) ==
    [w EXCEPT !.counters =
        [totalSucceededCounter |-> @.totalSucceededCounter + TotalSucceeded(a.checkpoint),
         totalFailedCounter    |-> @.totalFailedCounter + TotalFailed(a.checkpoint)]]

\* the other operations of PrometheusOutput have empty bodies
PrometheusNoOp(w) == w

(***************************************************************************)
(* The Output interface: a call goes to the method of the receiver's type  *)
(***************************************************************************)
OutputBenchmarkStart(kind, w, a) ==
    CASE kind = "interactive" -> InteractiveBenchmarkStart(w, a)
      [] kind = "csv"         -> CsvBenchmarkStart(w, a)
      [] kind = "prometheus"  -> PrometheusNoOp(w)

OutputReportInitProgress(kind, w, a) ==
    CASE kind = "interactive" -> InteractiveReportInitProgress(w, a)
      [] kind = "csv"         -> CsvReportInitProgress(w, a)
      [] kind = "prometheus"  -> PrometheusNoOp(w)

OutputReportWorkloadProgress(kind, w, a, env) ==
    CASE kind = "interactive" -> InteractiveReportWorkloadProgress(w, a)
      [] kind = "csv"         -> CsvReportWorkloadProgress(w, a, env)
      [] kind = "prometheus"  -> PrometheusReportWorkloadProgress(w, a)

OutputReportThroughput(kind, w, a, env) ==
    CASE kind = "interactive" -> InteractiveReportThroughput(w, a, env)
      [] kind = "csv"         -> CsvReportThroughput(w, a, env)
      [] kind = "prometheus"  -> PrometheusNoOp(w)

OutputReportLatency(kind, w, a, env) ==
    CASE kind = "interactive" -> InteractiveReportLatency(w, a, env)
      [] kind = "csv"         -> CsvReportLatency(w, a, env)
      [] kind = "prometheus"  -> PrometheusNoOp(w)

OutputErrorf(kind, w, a) ==
    CASE kind = "interactive" -> InteractiveErrorf(w, a)
      [] kind = "csv"         -> CsvErrorf(w, a)
      [] kind = "prometheus"  -> PrometheusNoOp(w)

(***************************************************************************)
(* CombinedOutput: for _, d := range c.delegates { d.Op(args) }            *)
(* Each delegate's call is noted in delegated; a panic ends the loop.      *)
(***************************************************************************)
Noted(w, d, op, a) ==
    [w EXCEPT !.delegated = Append(@, [to |-> d, op |-> op, args |-> a])]

\* after[i] is the world after the first i rounds of the loop
CombinedBenchmarkStart(w, delegates, a) ==
    LET after[i \in 0..Len(delegates)] ==
            IF i = 0 THEN w
            ELSE IF after[i - 1].panicked THEN after[i - 1]
            ELSE OutputBenchmarkStart(delegates[i],
                    Noted(after[i - 1], delegates[i], "BenchmarkStart", a), a)
    IN after[Len(delegates)]

CombinedReportInitProgress(w, delegates, a) ==
    LET after[i \in 0..Len(delegates)] ==
            IF i = 0 THEN w
            ELSE IF after[i - 1].panicked THEN after[i - 1]
            ELSE OutputReportInitProgress(delegates[i],
                    Noted(after[i - 1], delegates[i], "ReportInitProgress", a), a)
    IN after[Len(delegates)]

CombinedReportWorkloadProgress(w, delegates, a, env) ==
    LET after[i \in 0..Len(delegates)] ==
            IF i = 0 THEN w
            ELSE IF after[i - 1].panicked THEN after[i - 1]
            ELSE OutputReportWorkloadProgress(delegates[i],
                    Noted(after[i - 1], delegates[i], "ReportWorkloadProgress", a), a, env)
    IN after[Len(delegates)]

CombinedReportThroughput(w, delegates, a, env) ==
    LET after[i \in 0..Len(delegates)] ==
            IF i = 0 THEN w
            ELSE IF after[i - 1].panicked THEN after[i - 1]
            ELSE OutputReportThroughput(delegates[i],
                    Noted(after[i - 1], delegates[i], "ReportThroughput", a), a, env)
    IN after[Len(delegates)]

CombinedReportLatency(w, delegates, a, env) ==
    LET after[i \in 0..Len(delegates)] ==
            IF i = 0 THEN w
            ELSE IF after[i - 1].panicked THEN after[i - 1]
            ELSE OutputReportLatency(delegates[i],
                    Noted(after[i - 1], delegates[i], "ReportLatency", a), a, env)
    IN after[Len(delegates)]

\* d.Errorf(format, a): the slice a is handed on as one argument
Passed(a) == [format |-> a.format, a |-> <<Slice(a.a)>>]

CombinedErrorf(w, delegates, a) ==
    LET after[i \in 0..Len(delegates)] ==
            IF i = 0 THEN w
            ELSE IF after[i - 1].panicked THEN after[i - 1]
            ELSE OutputErrorf(delegates[i],
                    Noted(after[i - 1], delegates[i], "Errorf", Passed(a)), Passed(a))
    IN after[Len(delegates)]


(***************************************************************************)
(* SpecOutput: InitOutput is called once, then the six Output operations   *)
(* are called on what it returned, in any order.                           *)
(***************************************************************************)
ModeNames == {"auto", "interactive", "csv", "xml", ""}
Addresses == {"", ":9090"}
\* what os.Stdout is: a terminal, a pipe or file, or a closed descriptor
Stdouts   == {"terminal", "pipe", "closed"}

NoOutput == [kind |-> "nil", delegates |-> <<>>]
UnknownFormat(name) ==
    "unknown output format: " \o name
        \o ", supported formats are 'auto', 'interactive' and 'csv'"

InitOutputState ==
    /\ pc = "init"
    /\ initArgs = [name |-> "", prometheusAddress |-> ""]
    /\ output = [out |-> NoOutput, err |-> ""]
    /\ process = [listener |-> FALSE, constructed |-> <<>>]
    /\ renderer = [LastProgressReport |-> ZeroReport, LastProgressTime |-> ZeroTime]
    /\ ErrStream = <<>>
    /\ OutStream = <<>>
    /\ counters = NewPrometheusOutput
    /\ now = 0
    /\ history = <<>>
    /\ delegated = <<>>

InitOutputSpec == AggIdle /\ ConcIdle /\ InitOutputState

\* A bug InitOutput could have: the listener is started before the name is
\* checked.
InitOutputListensFirst(name, prometheusAddress, stdout) ==
    LET resolved == IF name # "auto" THEN name
                    ELSE IF stdout = "terminal" THEN "interactive" ELSE "csv"
        known == resolved \in {"interactive", "csv"}
    IN /\ pc = "init"
       /\ initArgs' = [name |-> name, prometheusAddress |-> prometheusAddress]
       /\ IF name = "auto" /\ stdout = "closed"
          THEN /\ pc' = "panicked"
               /\ UNCHANGED <<output, process>>
          ELSE /\ pc' = IF known THEN "run" ELSE "failed"
               /\ process' =
                    [listener    |-> prometheusAddress # "",
                     constructed |-> (IF known THEN <<resolved>> ELSE <<>>)
                                     \o (IF prometheusAddress # ""
                                         THEN <<"prometheus">> ELSE <<>>)]
               /\ output' =
                    IF ~known THEN [out |-> NoOutput, err |-> UnknownFormat(name)]
                    ELSE IF prometheusAddress # ""
                    THEN [out |-> [kind |-> "combined",
                                   delegates |-> <<resolved, "prometheus">>],
                          err |-> ""]
                    ELSE [out |-> [kind |-> resolved, delegates |-> <<>>], err |-> ""]
       /\ UNCHANGED <<renderer, ErrStream, OutStream, counters, now, history, delegated,
                      aggVars, concVars>>

\* InitOutput(name, prometheusAddress). With "auto", fi.Mode() is read from
\* the FileInfo of os.Stdout.Stat(), whose error is dropped: on a closed
\* stdout fi is nil and the call panics.
InitOutputCall(name, prometheusAddress, stdout) ==
    LET resolved == IF name # "auto" THEN name
                    ELSE IF stdout = "terminal" THEN "interactive" ELSE "csv"
        known == resolved \in {"interactive", "csv"}
    IN /\ pc = "init"
       /\ initArgs' = [name |-> name, prometheusAddress |-> prometheusAddress]
       /\ IF name = "auto" /\ stdout = "closed"
          THEN /\ pc' = "panicked"
               /\ UNCHANGED <<output, process>>
          ELSE /\ pc' = IF known THEN "run" ELSE "failed"
               /\ process' =
                    [listener    |-> known /\ prometheusAddress # "",
                     constructed |-> IF ~known THEN <<>>
                                     ELSE IF prometheusAddress # ""
                                     THEN <<resolved, "prometheus">> ELSE <<resolved>>]
               /\ output' =
                    IF ~known THEN [out |-> NoOutput, err |-> UnknownFormat(name)]
                    ELSE IF prometheusAddress # ""
                    THEN [out |-> [kind |-> "combined",
                                   delegates |-> <<resolved, "prometheus">>],
                          err |-> ""]
                    ELSE [out |-> [kind |-> resolved, delegates |-> <<>>], err |-> ""]
       /\ UNCHANGED <<renderer, ErrStream, OutStream, counters, now, history, delegated,
                      aggVars, concVars>>

InitOutput ==
    \E name \in ModeNames, prometheusAddress \in Addresses, stdout \in Stdouts :
        InitOutputCall(name, prometheusAddress, stdout)

\* InitPrometheus' goroutine: http.ListenAndServe returns an error and the
\* goroutine panics, at any time after the listener was started.
InitPrometheusPanics ==
    /\ pc = "run"
    /\ process.listener
    /\ pc' = "panicked"
    /\ UNCHANGED <<initArgs, output, process, renderer, ErrStream, OutStream, counters,
                   now, history, delegated, aggVars, concVars>>

\* The Results handed to the Report operations: a fresh one, and ones built
\* by Add.
Fresh == NewResult("neo4j", "-w builtin:tpcb-like")
OnlySucceeded ==
    Add(Fresh, [Scripts |-> [n \in {"tx"} |-> WorkerScript("tx", 2, 0)],
                FailedByErrorGroup |-> Empty])
Mixed ==
    Add(OnlySucceeded,
        [Scripts |-> [n \in {"tx", "q"} |->
                        IF n = "tx" THEN WorkerScript("tx", 1, 0) ELSE WorkerScript("q", 0, 1)],
         FailedByErrorGroup |->
            [n \in {"timeout"} |-> [Count |-> 1, FirstFailure |-> "e1"]]])
OnlyFailed ==
    Add(Fresh, [Scripts |-> [n \in {"tx"} |-> WorkerScript("tx", 0, 1)],
                FailedByErrorGroup |->
                    [n \in {"deadlock"} |-> [Count |-> 1, FirstFailure |-> "e2"]]])
SampleResults == {Fresh, OnlySucceeded, Mixed, OnlyFailed}
\* checkpoints of one run: Mixed is OnlySucceeded and one more contribution
Checkpoints == {OnlySucceeded, Mixed}

ProgressReports ==
    {[Section |-> "", Step |-> "", Completeness |-> 0],
     [Section |-> "load", Step |-> "nodes", Completeness |-> 0],
     [Section |-> "load", Step |-> "rels", Completeness |-> 50]}

\* the seconds between one reading of the clock and the next
Elapsed == {9, 10}

\* The most writes one call makes: CsvOutput writes twice in BenchmarkStart
\* and the final reports and three times in ReportWorkloadProgress, every
\* other operation once.
Writes(op) ==
    CASE op = "ReportWorkloadProgress" -> 0..3
      [] op \in {"BenchmarkStart", "ReportThroughput", "ReportLatency"} -> 0..2
      [] OTHER -> 0..1

\* The fate of one call: how its ranges over the two maps of the Result run,
\* and which of its writes fails (0: none).
Envs(op, result) ==
    [scripts : Orders(DOMAIN result.Scripts),
     groups  : Orders(DOMAIN result.FailedByErrorGroup),
     failAt  : Writes(op)]

\* Calls are made on an Output InitOutput returned, MaxCalls of them
Callable == pc = "run" /\ Len(history) < MaxCalls

\* The call's effects: w is the world its method left
OutputCall(op, a, at, w) ==
    /\ renderer' = w.renderer
    /\ ErrStream' = w.ErrStream
    /\ OutStream' = w.OutStream
    /\ counters' = w.counters
    /\ delegated' = w.delegated
    /\ pc' = IF w.panicked THEN "panicked" ELSE "run"
    /\ now' = at
    /\ history' = Append(history, [op |-> op, args |-> a])
    /\ UNCHANGED <<initArgs, output, process, aggVars, concVars>>

BenchmarkStart ==
    /\ Callable
    /\ \E databaseName \in {"", "neo4j"}, env \in Envs("BenchmarkStart", Fresh) :
        \E a \in {[databaseName |-> databaseName, url |-> "bolt://localhost:7687",
                   scenario |-> "-w builtin:tpcb-like"]} :
        \E w \in {IF output.out.kind = "combined"
                  THEN CombinedBenchmarkStart(World(env.failAt, now), output.out.delegates, a)
                  ELSE OutputBenchmarkStart(output.out.kind, World(env.failAt, now), a)} :
            OutputCall("BenchmarkStart", a, now, w)

ReportInitProgress ==
    /\ Callable
    /\ \E report \in ProgressReports, d \in Elapsed,
          env \in Envs("ReportInitProgress", Fresh) :
        \E a \in {[report |-> report]} :
        \E w \in {IF output.out.kind = "combined"
                  THEN CombinedReportInitProgress(World(env.failAt, now + d),
                                                  output.out.delegates, a)
                  ELSE OutputReportInitProgress(output.out.kind,
                                                World(env.failAt, now + d), a)} :
            OutputCall("ReportInitProgress", a, now + d, w)

ReportWorkloadProgress ==
    /\ Callable
    /\ \E checkpoint \in Checkpoints :
        \E env \in Envs("ReportWorkloadProgress", checkpoint) :
        \E a \in {[completeness |-> 50, checkpoint |-> checkpoint]} :
        \E w \in {IF output.out.kind = "combined"
                  THEN CombinedReportWorkloadProgress(World(env.failAt, now),
                                                      output.out.delegates, a, env)
                  ELSE OutputReportWorkloadProgress(output.out.kind,
                                                    World(env.failAt, now), a, env)} :
            OutputCall("ReportWorkloadProgress", a, now, w)

ReportThroughput ==
    /\ Callable
    /\ \E result \in {OnlySucceeded, OnlyFailed} :
        \E env \in Envs("ReportThroughput", result) :
        \E a \in {[result |-> result]} :
        \E w \in {IF output.out.kind = "combined"
                  THEN CombinedReportThroughput(World(env.failAt, now),
                                                output.out.delegates, a, env)
                  ELSE OutputReportThroughput(output.out.kind,
                                              World(env.failAt, now), a, env)} :
            OutputCall("ReportThroughput", a, now, w)

ReportLatency ==
    /\ Callable
    /\ \E result \in SampleResults :
        \E env \in Envs("ReportLatency", result) :
        \E a \in {[result |-> result]} :
        \E w \in {IF output.out.kind = "combined"
                  THEN CombinedReportLatency(World(env.failAt, now),
                                             output.out.delegates, a, env)
                  ELSE OutputReportLatency(output.out.kind,
                                           World(env.failAt, now), a, env)} :
            OutputCall("ReportLatency", a, now, w)

Errorf ==
    /\ Callable
    /\ \E format \in Formats, env \in Envs("Errorf", Fresh) :
        \E a \in {[format |-> format,
                   a |-> IF Verbs(format) = 0 THEN <<>>
                         ELSE <<Str("connection refused")>>]} :
        \E w \in {IF output.out.kind = "combined"
                  THEN CombinedErrorf(World(env.failAt, now), output.out.delegates, a)
                  ELSE OutputErrorf(output.out.kind, World(env.failAt, now), a)} :
            OutputCall("Errorf", a, now, w)

NextOutput ==
    \/ InitOutput
    \/ InitPrometheusPanics
    \/ BenchmarkStart
    \/ ReportInitProgress
    \/ ReportWorkloadProgress
    \/ ReportThroughput
    \/ ReportLatency
    \/ Errorf

SpecOutput == InitOutputSpec /\ [][NextOutput]_vars


(***************************************************************************)
(* What the claims about the renderers speak of                            *)
(***************************************************************************)
\* the renderer that writes: the Output itself, or a CombinedOutput's first
\* delegate
Primary ==
    IF output.out.kind = "combined" THEN output.out.delegates[1] ELSE output.out.kind
HasPrometheus ==
    output.out.kind = "combined" /\ output.out.delegates[2] = "prometheus"
LastCall == history[Len(history)]
\* the latest call returned
Returned == pc = "run" /\ history # <<>>

IsProgress(e) == Len(e.lines) = 1 /\ e.lines[1][1] = "[%s][%s] %.02f%%"
\* the progress lines written so far, each with the time of its write
Emitted == SelectSeq(ErrStream, IsProgress)
LastEmitted == Emitted[Len(Emitted)]

\* C3: a ReportInitProgress call whose (Section, Step) is that of the last
\* progress line written, less than 10 seconds after that write, writes
\* nothing and leaves LastProgressReport and LastProgressTime as they were; a
\* call whose pair differs from the last written one, or the first call of
\* all, issues exactly one write, of that report's progress line and nothing
\* else, whatever the time elapsed.
C3_ProgressLimiter ==
    [][(/\ pc = "run"
        /\ Len(history') = Len(history) + 1
        /\ history'[Len(history')].op = "ReportInitProgress")
       => LET report == history'[Len(history')].args.report
              same == /\ Emitted # <<>>
                      /\ LastEmitted.lines[1][2] = report.Section
                      /\ LastEmitted.lines[1][3] = report.Step
          IN /\ (same /\ now' - LastEmitted.at < 10)
                    => UNCHANGED <<ErrStream, OutStream, renderer>>
             /\ ~same
                    => /\ Len(ErrStream') = Len(ErrStream) + 1
                       /\ SubSeq(ErrStream', 1, Len(ErrStream)) = ErrStream
                       /\ ErrStream'[Len(ErrStream')].lines =
                            << <<"[%s][%s] %.02f%%", report.Section, report.Step,
                                 ToString(report.Completeness) \o ".00">> >>
                       /\ OutStream' = OutStream]_vars

\* Two ReportInitProgress calls for ("load", "nodes"), the second 9 seconds
\* after the first: one progress line was written, by the first.
C3_Witness ==
    /\ pc = "run"
    /\ Len(history) = 2
    /\ \A i \in 1..2 :
        /\ history[i].op = "ReportInitProgress"
        /\ history[i].args.report.Section = "load"
        /\ history[i].args.report.Step = "nodes"
    /\ Len(Emitted) = 1
    /\ now - LastEmitted.at = 9

\* C4: when a call on a CombinedOutput has returned, every delegate has
\* received, in list order, exactly one call of the same operation with the
\* arguments the CombinedOutput received (for Errorf: the same format and the
\* same argument list).
C4_ForwardedIdentically ==
    (Returned /\ output.out.kind = "combined")
    => delegated = [i \in 1..Len(output.out.delegates) |->
                        [to |-> output.out.delegates[i],
                         op |-> LastCall.op, args |-> LastCall.args]]

\* the lines written to the data stream, in order
DataLines == Flatten([i \in 1..Len(OutStream) |-> OutStream[i].lines])
\* a run of a CsvOutput that starts with BenchmarkStart, which is not called
\* again
CsvRun ==
    /\ Returned
    /\ Primary = "csv"
    /\ history[1].op = "BenchmarkStart"
    /\ \A i \in 2..Len(history) : history[i].op # "BenchmarkStart"

\* C5: in a CsvOutput run that starts with BenchmarkStart, the first line of
\* the data stream is the header of the 14 column names and every later line
\* is a data row of 14 cells: no other header and no other text.
C5_OneHeaderThenRows ==
    CsvRun
    => /\ DataLines # <<>>
       /\ DataLines[1] = <<"db", "script", "rate", "succeeded", "failed", "mean", "stdev",
                           "p0", "p25", "p50", "p75", "p99", "p99999", "p100">>
       /\ \A i \in 2..Len(DataLines) :
            /\ Len(DataLines[i]) = 14
            /\ DataLines[i] # DataLines[1]

\* the checkpoints received so far
IsCheckpoint(call) == call.op = "ReportWorkloadProgress"
CheckpointsSoFar == SelectSeq(history, IsCheckpoint)
\* each checkpoint's totals are at least the one's before
Cumulative ==
    \A i \in 2..Len(CheckpointsSoFar) :
        /\ TotalSucceeded(CheckpointsSoFar[i - 1].args.checkpoint)
             <= TotalSucceeded(CheckpointsSoFar[i].args.checkpoint)
        /\ TotalFailed(CheckpointsSoFar[i - 1].args.checkpoint)
             <= TotalFailed(CheckpointsSoFar[i].args.checkpoint)

\* C6: a PrometheusOutput that received checkpoints with cumulative totals
\* shows, in its two counters, the TotalSucceeded and the TotalFailed of the
\* latest checkpoint (0 before the first); the other operations change
\* neither.
C6_CountersShowLatestTotals ==
    (pc = "run" /\ HasPrometheus /\ Cumulative)
    => IF CheckpointsSoFar = <<>>
       THEN counters = [totalSucceededCounter |-> 0, totalFailedCounter |-> 0]
       ELSE LET latest == CheckpointsSoFar[Len(CheckpointsSoFar)].args.checkpoint
            IN counters = [totalSucceededCounter |-> TotalSucceeded(latest),
                           totalFailedCounter    |-> TotalFailed(latest)]

\* C7: when InitOutput has returned for a name other than auto, interactive
\* and csv, it returned the error naming the three and a nil Output, no
\* renderer was constructed and no listener started, whatever the address;
\* when it has returned for one of the three names and a non-empty address,
\* it returned a CombinedOutput of the renderer for that name and a
\* PrometheusOutput, in that order, whose counters are zero.
C7_InitOutput ==
    /\ (pc # "init" /\ initArgs.name \notin {"auto", "interactive", "csv"})
        => /\ pc = "failed"
           /\ output.out = [kind |-> "nil", delegates |-> <<>>]
           /\ output.err = "unknown output format: " \o initArgs.name
                            \o ", supported formats are 'auto', 'interactive' and 'csv'"
           /\ process.constructed = <<>>
           /\ ~process.listener
    /\ (/\ pc \in {"run", "failed"}
        /\ initArgs.name \in {"auto", "interactive", "csv"}
        /\ initArgs.prometheusAddress # "")
        => /\ pc = "run"
           /\ output.err = ""
           /\ output.out.kind = "combined"
           /\ Len(output.out.delegates) = 2
           /\ output.out.delegates[1] \in {"interactive", "csv"}
           /\ initArgs.name # "auto" => output.out.delegates[1] = initArgs.name
           /\ output.out.delegates[2] = "prometheus"
           /\ process.constructed = output.out.delegates
           /\ process.listener
           /\ history = <<>>
                => counters = [totalSucceededCounter |-> 0, totalFailedCounter |-> 0]

\* InitOutput("xml", ":9090") has returned
C7_Witness ==
    /\ pc = "failed"
    /\ initArgs = [name |-> "xml", prometheusAddress |-> ":9090"]

\* the latest call was ReportLatency on an InteractiveOutput, and it returned
LatencyReported ==
    Returned /\ Primary = "interactive" /\ LastCall.op = "ReportLatency"
\* what that call wrote
Report == OutStream[Len(OutStream)].lines
SectionHeads == {i \in 1..Len(Report) : Report[i][1] = "-- Script: %s --"}
ErrorStats == {i \in 1..Len(Report) : Report[i] = <<"Error stats:">>}

\* The report of ReportLatency(result) with this many per-script sections:
\* the scenario line, the line of the totals, the sections, each for a script
\* of its own, then the error summary, which is "No errors!" without causes
\* exactly when TotalFailed is 0.
LatencyReportWith(result, sections) ==
    /\ Report[1] = <<"== Results ==">>
    /\ Report[2] = <<"Scenario: %s", result.Scenario>>
    /\ Report[3] = <<"%d successful transactions, %d failed. (Total of %.3f per second)",
                     ToString(TotalSucceeded(result)), ToString(TotalFailed(result)),
                     ToString(TotalRate(result)) \o ".000">>
    /\ Cardinality(SectionHeads) = sections
    /\ Cardinality({Report[i][2] : i \in SectionHeads}) = sections
    /\ \A i \in SectionHeads :
        \E n \in DOMAIN result.Scripts : Report[i][2] = result.Scripts[n].ScriptName
    /\ Cardinality(ErrorStats) = 1
    /\ \A e \in ErrorStats :
        /\ \A i \in SectionHeads : 3 < i /\ i < e
        /\ e < Len(Report)
        /\ (TotalFailed(result) = 0) <=> (Report[e + 1] = <<"  No errors!">>)
        /\ (TotalFailed(result) = 0)
             <=> (\A i \in 1..Len(Report) : Report[i] # <<"  Causes:">>)

\* C8, as stated: ReportLatency writes one per-script section for each entry
\* of Result.Scripts whatever the counters, between the totals and the error
\* summary.
C8_SectionForEveryScript ==
    LatencyReported
    => LatencyReportWith(LastCall.args.result,
                         Cardinality(DOMAIN LastCall.args.result.Scripts))

\* C8: ReportLatency writes the scenario line, the line of the totals, then
\* one per-script section for each entry of Result.Scripts when
\* TotalSucceeded is above 0 and none when it is 0, then the error summary,
\* which is "No errors!" without causes exactly when TotalFailed is 0.
C8_SectionsWhenAnySucceeded ==
    LatencyReported
    => LatencyReportWith(LastCall.args.result,
                         IF TotalSucceeded(LastCall.args.result) > 0
                         THEN Cardinality(DOMAIN LastCall.args.result.Scripts)
                         ELSE 0)

\* ReportLatency has returned for a Result with a script and no succeeded
\* transaction
C8_Witness ==
    /\ LatencyReported
    /\ TotalSucceeded(LastCall.args.result) = 0
    /\ DOMAIN LastCall.args.result.Scripts # {}

============================================================================
